---- MODULE Spec2Model ----
(***************************************************************************)
(* Linear regression by Cholesky decomposition of the normal equations,    *)
(* as carried out by 02_lin_reg_decomposition.ipynb: the design matrix A   *)
(* and the target y are turned into tensors, the graph nodes tA_A, L,      *)
(* tA_y, sol1 and sol2 are built, and sess.run(sol2) evaluates them.       *)
(*                                                                         *)
(* Numbers are exact rationals <<num, den>> in lowest terms with den > 0.  *)
(* Sums, products and quotients are exact.  A square root is exact when    *)
(* its argument is the square of a rational; any other square root is      *)
(* irrational and is rounded to SigBits significant bits, as a machine     *)
(* square root returns a nearby binary fraction.                           *)
(***************************************************************************)
EXTENDS Integers, Sequences, FiniteSets, TLC

(***************************************************************************)
(* Bounds of the model.                                                    *)
(***************************************************************************)
MaxN == 3
MaxRuns == 2
SigBits == 3

(***************************************************************************)
(* The design matrix has two columns: column_stack((x_vals_column,         *)
(* ones_column)).                                                          *)
(***************************************************************************)
NumCols == 2

(***************************************************************************)
(* Rational arithmetic.                                                    *)
(***************************************************************************)
Abs(i) == IF i < 0 THEN -i ELSE i

RECURSIVE Gcd(_, _)
Gcd(a, b) == IF b = 0 THEN a ELSE Gcd(b, a % b)

Rat(n, d) ==
  LET g == Gcd(Abs(n), Abs(d))
      s == IF d < 0 THEN -1 ELSE 1
  IN  <<(s * n) \div g, (s * d) \div g>>

Zero == <<0, 1>>
One == <<1, 1>>
FromInt(i) == <<i, 1>>

RAdd(p, q) ==
  LET g == Gcd(p[2], q[2])
  IN  Rat(p[1] * (q[2] \div g) + q[1] * (p[2] \div g), (p[2] \div g) * q[2])
RNeg(p) == <<-p[1], p[2]>>
RSub(p, q) == RAdd(p, RNeg(q))
RMul(p, q) == Rat(p[1] * q[1], p[2] * q[2])
RDiv(p, q) == Rat(p[1] * q[2], p[2] * q[1])
RLt(p, q) == p[1] * q[2] < q[1] * p[2]
RLe(p, q) == p[1] * q[2] <= q[1] * p[2]
RAbs(p) == <<Abs(p[1]), p[2]>>

RECURSIVE Pow2(_)
Pow2(e) == IF e = 0 THEN 1 ELSE 2 * Pow2(e - 1)

\* floor of the square root of a natural number below 2^31, one bit at a
\* time from bit b down; (r + b)^2 <= n is tested as r + b <= n \div (r + b)
RECURSIVE ISqrtFrom(_, _, _)
ISqrtFrom(n, r, b) ==
  IF b = 0 THEN r
  ELSE IF r + b <= n \div (r + b) THEN ISqrtFrom(n, r + b, b \div 2)
  ELSE ISqrtFrom(n, r, b \div 2)
ISqrt(n) == ISqrtFrom(n, 0, 32768)

IsSquare(n) == ISqrt(n) * ISqrt(n) = n

\* the square root of a rational is rational iff numerator and denominator
\* (in lowest terms) are both squares
IsRatSquare(q) == q[1] >= 0 /\ IsSquare(q[1]) /\ IsSquare(q[2])

\* the exponent t with 4^(SigBits-1) <= q * 4^t < 4^SigBits, for q > 0
RECURSIVE ScaleExp(_, _)
ScaleExp(q, t) ==
  LET lo == Pow2(2 * (SigBits - 1))
      scaled == IF t >= 0 THEN <<q[1] * Pow2(2 * t), q[2]>>
                ELSE <<q[1], q[2] * Pow2(-2 * t)>>
  IN  IF RLt(scaled, <<lo, 1>>) THEN ScaleExp(q, t + 1)
      ELSE IF RLe(<<4 * lo, 1>>, scaled) THEN ScaleExp(q, t - 1)
      ELSE t

\* sqrt(q) for q > 0.  The square root of the square of a rational is
\* exact.  Any other square root is irrational and is rounded to the nearest
\* number with SigBits significant bits: with t as above, k is the floor of
\* sqrt(q * 4^t), the result is k / 2^t, or (k+1) / 2^t when sqrt(q * 4^t)
\* lies above the midpoint k + 1/2.
Sqrt(q) ==
  IF IsRatSquare(q) THEN <<ISqrt(q[1]), ISqrt(q[2])>>
  ELSE LET t == ScaleExp(q, 0)
           num == IF t >= 0 THEN q[1] * Pow2(2 * t) ELSE q[1]
           den == IF t >= 0 THEN q[2] ELSE q[2] * Pow2(-2 * t)
           k == ISqrt(num \div den)
           up == (2 * k + 1) * (2 * k + 1) * den < 4 * num
           m == IF up THEN k + 1 ELSE k
       IN  IF t >= 0 THEN Rat(m, Pow2(t)) ELSE Rat(m * Pow2(-t), 1)

(***************************************************************************)
(* Matrices are sequences of rows; a vector is a matrix of one column, as  *)
(* np.transpose(np.matrix(y_vals)) is.                                     *)
(***************************************************************************)
NoValue == <<>>

Rows(M) == Len(M)
Cols(M) == Len(M[1])

RECURSIVE SumTo(_, _)
\* f[1] + ... + f[n]
SumTo(f, n) == IF n = 0 THEN Zero ELSE RAdd(SumTo(f, n - 1), f[n])

\* tf.transpose
Transpose(M) == [j \in 1..Cols(M) |-> [i \in 1..Rows(M) |-> M[i][j]]]

\* tf.matmul on operands whose inner dimensions agree
MatMul(X, Y) ==
  [i \in 1..Rows(X) |->
     [j \in 1..Cols(Y) |->
        SumTo([t \in 1..Cols(X) |-> RMul(X[i][t], Y[t][j])], Cols(X))]]

(***************************************************************************)
(* tf.cholesky: the kernel factors the matrix column by column and reads   *)
(* only its lower triangle.  Column k: the pivot is M[k][k] minus the      *)
(* squares of row k of L so far; a pivot that is not positive ends the     *)
(* decomposition unsuccessfully; otherwise L[k][k] is its square root and  *)
(* the entries below are (M[i][k] - L[i][1..k-1].L[k][1..k-1]) / L[k][k].  *)
(* Entries above the diagonal are zero.                                    *)
(***************************************************************************)
ZeroMatrix(n, m) == [i \in 1..n |-> [j \in 1..m |-> Zero]]

RowDot(L, i, k, upto) ==
  SumTo([j \in 1..upto |-> RMul(L[i][j], L[k][j])], upto)

CholPivot(M, L, k) == RSub(M[k][k], RowDot(L, k, k, k - 1))

CholColumn(M, L, k) ==
  LET d == Sqrt(CholPivot(M, L, k))
  IN  [i \in 1..Rows(M) |->
         [j \in 1..Rows(M) |->
            IF j # k \/ i < k THEN L[i][j]
            ELSE IF i = k THEN d
            ELSE RDiv(RSub(M[i][k], RowDot(L, i, k, k - 1)), d)]]

RECURSIVE CholFrom(_, _, _)
CholFrom(M, L, k) ==
  IF k > Rows(M) THEN [ok |-> TRUE, L |-> L]
  ELSE IF RLe(CholPivot(M, L, k), Zero) THEN [ok |-> FALSE, L |-> NoValue]
  ELSE CholFrom(M, CholColumn(M, L, k), k + 1)

\* Cholesky returning the upper factor U = Lt, with Ut * U = M
CholeskyUpper(M) ==
  LET c == CholFrom(M, ZeroMatrix(Rows(M), Rows(M)), 1)
  IN  IF c.ok THEN [ok |-> TRUE, L |-> Transpose(c.L)] ELSE c

Cholesky(M) == CholFrom(M, ZeroMatrix(Rows(M), Rows(M)), 1)

(***************************************************************************)
(* tf.matrix_solve(matrix, rhs): the kernel solves by LU decomposition     *)
(* with partial pivoting (in each column the first row of largest          *)
(* magnitude at or below the diagonal becomes the pivot row), fails when   *)
(* a pivot is exactly zero, and otherwise substitutes back.  It does not   *)
(* look at whether the matrix is triangular.                               *)
(***************************************************************************)
Augment(M, B) == [i \in 1..Rows(M) |-> M[i] \o B[i]]

RECURSIVE PivotRowFrom(_, _, _, _)
\* the first row in r..n whose entry in column c has the largest magnitude;
\* best is the best row among those before r
PivotRowFrom(U, c, r, best) ==
  IF r > Rows(U) THEN best
  ELSE IF RLt(RAbs(U[best][c]), RAbs(U[r][c]))
       THEN PivotRowFrom(U, c, r + 1, r)
       ELSE PivotRowFrom(U, c, r + 1, best)

PivotRow(U, c) == PivotRowFrom(U, c, c + 1, c)

SwapRows(U, a, b) ==
  [i \in 1..Rows(U) |-> IF i = a THEN U[b] ELSE IF i = b THEN U[a] ELSE U[i]]

\* EliminateColumn leaving the right-hand sides as they were
EliminateColumnKeepingRhs(U, c) ==
  [i \in 1..Rows(U) |->
     IF i <= c THEN U[i]
     ELSE LET f == RDiv(U[i][c], U[c][c])
          IN  [j \in 1..Len(U[i]) |->
                 IF j > Rows(U) THEN U[i][j]
                 ELSE RSub(U[i][j], RMul(f, U[c][j]))]]

EliminateColumn(U, c) ==
  [i \in 1..Rows(U) |->
     IF i <= c THEN U[i]
     ELSE LET f == RDiv(U[i][c], U[c][c])
          IN  [j \in 1..Len(U[i]) |-> RSub(U[i][j], RMul(f, U[c][j]))]]

RECURSIVE LUFromGuarded(_, _)
\* LUFrom giving up on a pivot that is small, not only on one that is zero
LUFromGuarded(U, c) ==
  IF c > Rows(U) THEN [ok |-> TRUE, U |-> U]
  ELSE LET S == SwapRows(U, c, PivotRow(U, c))
       IN  IF RLt(RAbs(S[c][c]), <<1, 1000>>) THEN [ok |-> FALSE, U |-> NoValue]
           ELSE LUFromGuarded(EliminateColumn(S, c), c + 1)

RECURSIVE LUFrom(_, _)
LUFrom(U, c) ==
  IF c > Rows(U) THEN [ok |-> TRUE, U |-> U]
  ELSE LET S == SwapRows(U, c, PivotRow(U, c))
       IN  IF S[c][c] = Zero THEN [ok |-> FALSE, U |-> NoValue]
           ELSE LUFrom(EliminateColumn(S, c), c + 1)

RECURSIVE BackSubstituteDiagonalOnly(_, _, _, _)
\* BackSubstitute dividing by the diagonal without bringing in the rows
\* of the solution that are already there
BackSubstituteDiagonalOnly(U, n, i, X) ==
  IF i = 0 THEN X
  ELSE LET row == [c \in 1..(Len(U[i]) - n) |-> RDiv(U[i][n + c], U[i][i])]
       IN  BackSubstituteDiagonalOnly(U, n, i - 1,
                          [r \in 1..n |-> IF r = i THEN row ELSE X[r]])

RECURSIVE BackSubstitute(_, _, _, _)
\* X holds the rows i+1..n of the solution; n is the order of the system
BackSubstitute(U, n, i, X) ==
  IF i = 0 THEN X
  ELSE LET row == [c \in 1..(Len(U[i]) - n) |->
                     RDiv(RSub(U[i][n + c],
                               SumTo([t \in 1..(n - i) |->
                                        RMul(U[i][i + t], X[i + t][c])], n - i)),
                          U[i][i])]
       IN  BackSubstitute(U, n, i - 1,
                          [r \in 1..n |-> IF r = i THEN row ELSE X[r]])

MatrixSolve(M, B) ==
  LET lu == LUFrom(Augment(M, B), 1)
  IN  IF lu.ok
      THEN [ok |-> TRUE,
            X |-> BackSubstitute(lu.U, Rows(M), Rows(M),
                                 ZeroMatrix(Rows(M), Cols(B)))]
      ELSE [ok |-> FALSE, X |-> NoValue]

\* What the kernel of tf.matrix_solve does, in the order it does it: for
\* each column the choice of a pivot row and the updates of the rows below
\* it, then one substitution per row of the solution.  `using' is the row
\* brought in, `reads' the rows of the solution the step reads.
Step(kind, row, using, reads) ==
  [kind |-> kind, row |-> row, using |-> using, reads |-> reads]

RECURSIVE LUStepsFrom(_, _)
LUStepsFrom(U, c) ==
  IF c > Rows(U) THEN <<>>
  ELSE LET p == PivotRow(U, c)
           S == SwapRows(U, c, p)
       IN  <<Step("pivot", c, p, {})>> \o
           (IF S[c][c] = Zero THEN <<>>
            ELSE [t \in 1..(Rows(U) - c) |-> Step("eliminate", c + t, c, {})]
                 \o LUStepsFrom(EliminateColumn(S, c), c + 1))

\* BackSubstitute takes the rows n, n-1, .. 1; row i reads rows i+1..n of X
SubstituteSteps(n) ==
  [s \in 1..n |->
     LET i == n + 1 - s
     IN  Step("substitute", i, i, {i + t : t \in 1..(n - i)})]

SolveSteps(M, B) ==
  LUStepsFrom(Augment(M, B), 1) \o
  (IF LUFrom(Augment(M, B), 1).ok THEN SubstituteSteps(Rows(M)) ELSE <<>>)

\* the system the substitution works on
Eliminated(M, B) == LUFrom(Augment(M, B), 1).U

(***************************************************************************)
(* The notebook.  Its cells run top to bottom; pc names the next one.      *)
(*   columns        the two columns handed to np.column_stack              *)
(*   y_vals         the targets                                            *)
(*   A_tensor       tf.constant(A), A = column_stack(columns)              *)
(*   y              np.transpose(np.matrix(y_vals)), one column            *)
(*   val            the value each graph node has in the current           *)
(*                  sess.run, NoValue while it has not been computed       *)
(*   trace          the kernels the current sess.run has executed, in      *)
(*                  order, each with its operands and its result           *)
(*   solution_eval  what sess.run(sol2) returned                           *)
(*   slope, y_intercept  the coefficients read from solution_eval          *)
(*   error          the exception that ended the notebook, "" if none      *)
(*   history        the results of the earlier sess.run(sol2) calls        *)
(***************************************************************************)
VARIABLES columns, y_vals, A_tensor, y, pc, val, trace, solution_eval,
          slope, y_intercept, error, history

vars == <<columns, y_vals, A_tensor, y, pc, val, trace, solution_eval,
          slope, y_intercept, error, history>>

Nodes == {"tA_A", "L", "tA_y", "sol1", "sol2"}

NoValues == [n \in Nodes |-> NoValue]

\* the exceptions TensorFlow and NumPy raise
ValueError == "ValueError"
CholeskyError == "InvalidArgumentError: Cholesky decomposition was not successful"
NotInvertibleError == "InvalidArgumentError: Input matrix is not invertible"

(***************************************************************************)
(* Inputs: columns and targets of 1..MaxN entries.  The entries of a       *)
(* column are integers of AVals times a unit of Units, one unit per        *)
(* column; the targets are integers of YVals.                              *)
(***************************************************************************)
AVals == {0, 1}
YVals == {3, 5}
Units == {One, <<2, 1>>, <<1, 1024>>}

VectorsOver(S) == UNION {[1..n -> S] : n \in 1..MaxN}

Scaled(u, c) == [i \in 1..Len(c) |-> RMul(u, FromInt(c[i]))]

ColumnPairs(units) ==
  {<<Scaled(u1, c1), Scaled(u2, c2)>> :
     u1 \in units, u2 \in units,
     c1 \in VectorsOver(AVals), c2 \in VectorsOver(AVals)}

Targets == {Scaled(One, v) : v \in VectorsOver(YVals)}

\* np.column_stack of columns of one length
ColumnStack(cs) == [i \in 1..Len(cs[1]) |-> [j \in 1..Len(cs) |-> cs[j][i]]]

\* np.transpose(np.matrix(v)): a row turned into a column
AsColumn(v) == [i \in 1..Len(v) |-> <<v[i]>>]

RECURSIVE SqrtsExactFrom(_, _, _)
\* every square root the decomposition of M takes is that of a square
SqrtsExactFrom(M, L, k) ==
  \/ k > Rows(M)
  \/ RLe(CholPivot(M, L, k), Zero)
  \/ /\ IsRatSquare(CholPivot(M, L, k))
     /\ SqrtsExactFrom(M, CholColumn(M, L, k), k + 1)

ExactColumns(cs) ==
  Len(cs[1]) = Len(cs[2]) =>
    LET A == ColumnStack(cs)
        M == MatMul(Transpose(A), A)
    IN  SqrtsExactFrom(M, ZeroMatrix(Rows(M), Rows(M)), 1)

InitWith(cs, ys) ==
  /\ columns = cs
  /\ y_vals = ys
  /\ A_tensor = NoValue
  /\ y = NoValue
  /\ pc = "design"
  /\ val = NoValues
  /\ trace = <<>>
  /\ solution_eval = NoValue
  /\ slope = NoValue
  /\ y_intercept = NoValue
  /\ error = ""
  /\ history = <<>>

\* inputs on which every square root is exact
Init == \E cs \in {c \in ColumnPairs(Units) : ExactColumns(c)}, ys \in Targets :
          InitWith(cs, ys)

\* all inputs with entries in whole units
InitRounded == \E cs \in ColumnPairs({One}), ys \in Targets : InitWith(cs, ys)

(***************************************************************************)
(* Cells 5 and 6: the design matrix and the tensors.  np.column_stack      *)
(* raises ValueError when the columns differ in length.                    *)
(***************************************************************************)
CreateDesignMatrix ==
  /\ pc = "design" /\ error = ""
  /\ IF Len(columns[1]) = Len(columns[2])
     THEN /\ A_tensor' = ColumnStack(columns)
          /\ y' = AsColumn(y_vals)
          /\ pc' = "cholesky"
          /\ error' = error
     ELSE /\ error' = ValueError
          /\ UNCHANGED <<A_tensor, y, pc>>
  /\ UNCHANGED <<columns, y_vals, val, trace, solution_eval, slope,
                 y_intercept, history>>

(***************************************************************************)
(* Cell 7 adds the nodes tA_A and L to the graph, cell 8 the nodes tA_y    *)
(* and sol1, cell 9 the node sol2.  Building a node computes nothing; it   *)
(* checks the static shapes, and tf.matmul(tf.transpose(A_tensor), y)      *)
(* raises ValueError when A_tensor and y differ in their number of rows.   *)
(***************************************************************************)
BuildCholesky ==
  /\ pc = "cholesky" /\ error = ""
  /\ pc' = "sol1"
  /\ UNCHANGED <<columns, y_vals, A_tensor, y, val, trace, solution_eval,
                 slope, y_intercept, error, history>>

\* BuildSol1 without the check of the static shapes
BuildSol1Unchecked ==
  /\ pc = "sol1" /\ error = ""
  /\ pc' = "sol2"
  /\ UNCHANGED <<columns, y_vals, A_tensor, y, val, trace, solution_eval,
                 slope, y_intercept, error, history>>

BuildSol1 ==
  /\ pc = "sol1" /\ error = ""
  /\ IF Rows(A_tensor) = Rows(y)
     THEN pc' = "sol2" /\ error' = error
     ELSE error' = ValueError /\ pc' = pc
  /\ UNCHANGED <<columns, y_vals, A_tensor, y, val, trace, solution_eval,
                 slope, y_intercept, history>>

BuildSol2 ==
  /\ pc = "sol2" /\ error = ""
  /\ pc' = "run"
  /\ UNCHANGED <<columns, y_vals, A_tensor, y, val, trace, solution_eval,
                 slope, y_intercept, error, history>>

(***************************************************************************)
(* solution_eval = sess.run(sol2).  The session evaluates the nodes sol2   *)
(* depends on, each once all its inputs have a value: tA_A and tA_y need   *)
(* only the constants, L needs tA_A, sol1 needs L and tA_y, sol2 needs L   *)
(* and sol1.  A kernel that fails ends the run with its exception.         *)
(***************************************************************************)
\* Running with a raised exception not ending the run
RunningDespiteError == pc = "run"

Running == pc = "run" /\ error = ""

Executed(op, node, a, b, out) ==
  [op |-> op, node |-> node, a |-> a, b |-> b, out |-> out]

\* tA_A = tf.matmul(tf.transpose(A_tensor), A_tensor)
RunMatMulAtA ==
  /\ Running /\ val["tA_A"] = NoValue
  /\ LET a == Transpose(A_tensor)
         out == MatMul(a, A_tensor)
     IN  /\ val' = [val EXCEPT !["tA_A"] = out]
         /\ trace' = Append(trace, Executed("MatMul", "tA_A", a, A_tensor, out))
  /\ UNCHANGED <<columns, y_vals, A_tensor, y, pc, solution_eval, slope,
                 y_intercept, error, history>>

\* L = tf.cholesky(tA_A)
RunCholesky ==
  /\ Running /\ val["tA_A"] # NoValue /\ val["L"] = NoValue
  /\ LET c == Cholesky(val["tA_A"])
     IN  /\ trace' = Append(trace,
                            Executed("Cholesky", "L", val["tA_A"], NoValue, c.L))
         /\ IF c.ok
            THEN val' = [val EXCEPT !["L"] = c.L] /\ error' = error
            ELSE val' = val /\ error' = CholeskyError
  /\ UNCHANGED <<columns, y_vals, A_tensor, y, pc, solution_eval, slope,
                 y_intercept, history>>

\* RunMatMulAty with the kernel clearing the buffer of y once it has read it
RunMatMulAtyConsuming ==
  /\ Running /\ val["tA_y"] = NoValue
  /\ LET a == Transpose(A_tensor)
         out == MatMul(a, y)
     IN  /\ val' = [val EXCEPT !["tA_y"] = out]
         /\ trace' = Append(trace, Executed("MatMul", "tA_y", a, y, out))
  /\ y' = ZeroMatrix(Rows(y), 1)
  /\ UNCHANGED <<columns, y_vals, A_tensor, pc, solution_eval, slope,
                 y_intercept, error, history>>

\* tA_y = tf.matmul(tf.transpose(A_tensor), y)
RunMatMulAty ==
  /\ Running /\ val["tA_y"] = NoValue
  /\ LET a == Transpose(A_tensor)
         out == MatMul(a, y)
     IN  /\ val' = [val EXCEPT !["tA_y"] = out]
         /\ trace' = Append(trace, Executed("MatMul", "tA_y", a, y, out))
  /\ UNCHANGED <<columns, y_vals, A_tensor, y, pc, solution_eval, slope,
                 y_intercept, error, history>>

\* a tf.matrix_solve node: its kernel on the operands a and b
RunSolve(node, a, b) ==
  LET r == MatrixSolve(a, b)
  IN  /\ trace' = Append(trace, Executed("MatrixSolve", node, a, b, r.X))
      /\ IF r.ok
         THEN val' = [val EXCEPT ![node] = r.X] /\ error' = error
         ELSE val' = val /\ error' = NotInvertibleError

\* RunSol1 solving with the transpose of L, as the introduction has it
RunSol1Transposed ==
  /\ Running /\ val["L"] # NoValue /\ val["tA_y"] # NoValue
  /\ val["sol1"] = NoValue
  /\ RunSolve("sol1", Transpose(val["L"]), val["tA_y"])
  /\ UNCHANGED <<columns, y_vals, A_tensor, y, pc, solution_eval, slope,
                 y_intercept, history>>

\* sol1 = tf.matrix_solve(L, tA_y)
RunSol1 ==
  /\ Running /\ val["L"] # NoValue /\ val["tA_y"] # NoValue
  /\ val["sol1"] = NoValue
  /\ RunSolve("sol1", val["L"], val["tA_y"])
  /\ UNCHANGED <<columns, y_vals, A_tensor, y, pc, solution_eval, slope,
                 y_intercept, history>>

\* RunSol2 with the transpose left out
RunSol2Untransposed ==
  /\ Running /\ val["L"] # NoValue /\ val["sol1"] # NoValue
  /\ val["sol2"] = NoValue
  /\ RunSolve("sol2", val["L"], val["sol1"])
  /\ UNCHANGED <<columns, y_vals, A_tensor, y, pc, solution_eval, slope,
                 y_intercept, history>>

\* sol2 = tf.matrix_solve(tf.transpose(L), sol1)
RunSol2 ==
  /\ Running /\ val["L"] # NoValue /\ val["sol1"] # NoValue
  /\ val["sol2"] = NoValue
  /\ RunSolve("sol2", Transpose(val["L"]), val["sol1"])
  /\ UNCHANGED <<columns, y_vals, A_tensor, y, pc, solution_eval, slope,
                 y_intercept, history>>

\* sess.run returns the value of sol2
Fetch ==
  /\ Running /\ val["sol2"] # NoValue
  /\ solution_eval' = val["sol2"]
  /\ pc' = "extract"
  /\ UNCHANGED <<columns, y_vals, A_tensor, y, val, trace, slope,
                 y_intercept, error, history>>

(***************************************************************************)
(* Cell 10: slope = solution_eval[0][0], y_intercept = solution_eval[1][0] *)
(***************************************************************************)
\* ExtractCoefficients reading the two entries the other way round
ExtractCoefficientsSwapped ==
  /\ pc = "extract" /\ error = ""
  /\ slope' = solution_eval[2][1]
  /\ y_intercept' = solution_eval[1][1]
  /\ pc' = "done"
  /\ UNCHANGED <<columns, y_vals, A_tensor, y, val, trace, solution_eval,
                 error, history>>

ExtractCoefficients ==
  /\ pc = "extract" /\ error = ""
  /\ slope' = solution_eval[1][1]
  /\ y_intercept' = solution_eval[2][1]
  /\ pc' = "done"
  /\ UNCHANGED <<columns, y_vals, A_tensor, y, val, trace, solution_eval,
                 error, history>>

(***************************************************************************)
(* sess.run(sol2) again on the same graph: every node is evaluated anew.   *)
(***************************************************************************)
RunAgain ==
  /\ pc = "done" /\ error = ""
  /\ Len(history) + 1 < MaxRuns
  /\ history' = Append(history, solution_eval)
  /\ val' = NoValues
  /\ trace' = <<>>
  /\ pc' = "run"
  /\ UNCHANGED <<columns, y_vals, A_tensor, y, solution_eval, slope,
                 y_intercept, error>>

Next ==
  \/ CreateDesignMatrix
  \/ BuildCholesky
  \/ BuildSol1
  \/ BuildSol2
  \/ RunMatMulAtA
  \/ RunCholesky
  \/ RunMatMulAty
  \/ RunSol1
  \/ RunSol2
  \/ Fetch
  \/ ExtractCoefficients
  \/ RunAgain

\* the notebook on inputs whose square roots are all exact: every number
\* it computes is the exact real result
Spec == Init /\ [][Next]_vars

\* the notebook on all inputs in whole units: the square root of a
\* non-square is rounded, as the machine rounds it
SpecRounded == InitRounded /\ [][Next]_vars

(***************************************************************************)
(* Vocabulary of the properties.                                           *)
(***************************************************************************)
MatSub(X, Y) ==
  [i \in 1..Rows(X) |-> [j \in 1..Cols(X) |-> RSub(X[i][j], Y[i][j])]]

\* sess.run(sol2) has returned in the current run
Returned == pc \in {"extract", "done"}

\* the design matrix exists and has as many rows as y
WellShaped == A_tensor # NoValue /\ Rows(A_tensor) = Rows(y)

\* the two columns of A are linearly independent: some 2 x 2 minor is not 0
FullColumnRank(A) ==
  \E i, j \in 1..Rows(A) :
    RMul(A[i][1], A[j][2]) # RMul(A[j][1], A[i][2])

InTrace(node) == \E i \in 1..Len(trace) : trace[i].node = node
Idx(node) == CHOOSE i \in 1..Len(trace) : trace[i].node = node
Entry(node) == trace[Idx(node)]

LowerTriangular(L) ==
  \A i, j \in 1..Rows(L) : i < j => L[i][j] = Zero

AtA == MatMul(Transpose(A_tensor), A_tensor)
Aty == MatMul(Transpose(A_tensor), y)

(***************************************************************************)
(* C1.  For a design matrix of full column rank and a target with as many  *)
(* entries as the matrix has rows, the notebook raises no exception, and   *)
(* the vector sess.run returns has one entry per column of A and           *)
(* satisfies the normal equations: At * (A * x - y) = 0.                   *)
(***************************************************************************)
C1_NormalEquations ==
  (WellShaped /\ FullColumnRank(A_tensor)) =>
    /\ error = ""
    /\ Returned =>
         /\ Rows(solution_eval) = NumCols
         /\ Cols(solution_eval) = 1
         /\ MatMul(Transpose(A_tensor),
                   MatSub(MatMul(A_tensor, solution_eval), y))
              = ZeroMatrix(NumCols, 1)

\* an over-determined fit has returned, and A * x misses y
C1_Witness ==
  /\ pc = "done" /\ WellShaped /\ FullColumnRank(A_tensor)
  /\ Rows(A_tensor) > NumCols
  /\ MatMul(A_tensor, solution_eval) # y

IdenticalColumns == columns[1] = columns[2]

C4_IdenticalColumnsFail ==
  /\ \A i \in 1..Len(trace) :
       (trace[i].op = "Cholesky" /\ trace[i].out = NoValue) =>
         (error = CholeskyError /\ val["L"] = NoValue)
  /\ (WellShaped /\ IdenticalColumns) =>
       (val["L"] = NoValue /\ ~Returned /\ ~InTrace("sol1"))

(***************************************************************************)
(* C5.  When the columns of A differ in length, or A and y differ in their *)
(* number of rows, no kernel is ever executed and nothing is returned, and *)
(* the only way the notebook ends is with the shape error.                 *)
(***************************************************************************)
Ragged == Len(columns[1]) # Len(columns[2])
RowsDiffer == Len(columns[1]) # Len(y_vals)

C5_DimensionMismatch ==
  (Ragged \/ RowsDiffer) =>
    /\ trace = <<>>
    /\ val = NoValues
    /\ solution_eval = NoValue /\ slope = NoValue /\ y_intercept = NoValue
    /\ pc \in {"design", "cholesky", "sol1"}
    /\ error \in {"", ValueError}
    /\ Ragged => pc = "design"
    /\ ~(ENABLED Next) => error = ValueError

\* the matrix is rectangular, y is one entry short, and the notebook has
\* ended at the node that multiplies them
C5_Witness ==
  /\ ~Ragged /\ Len(y_vals) + 1 = Len(columns[1])
  /\ pc = "sol1" /\ error = ValueError

(***************************************************************************)
(* C6.  Columns [x, 1], targets y = 2 * x + 3, at least two distinct x:    *)
(* entry 0 of the result, the slope, is 2 and entry 1, the intercept, is 3 *)
(***************************************************************************)
Line2x3 ==
  /\ ~Ragged /\ ~RowsDiffer
  /\ \A i \in 1..Len(columns[2]) : columns[2][i] = One
  /\ \A i \in 1..Len(y_vals) :
       y_vals[i] = RAdd(RMul(FromInt(2), columns[1][i]), FromInt(3))
  /\ \E i, j \in 1..Len(columns[1]) : columns[1][i] # columns[1][j]

C6_SlopeIntercept ==
  Line2x3 =>
    /\ error = ""
    /\ Returned => solution_eval = <<<<FromInt(2)>>, <<FromInt(3)>>>>
    /\ pc = "done" => (slope = FromInt(2) /\ y_intercept = FromInt(3))

C6_Witness == Line2x3 /\ pc = "done" /\ slope # y_intercept

(***************************************************************************)
(* C7.  An exception is final: no step is taken from a state that holds    *)
(* one, and such a state holds no result of sess.run and no coefficient.   *)
(***************************************************************************)
C7_ErrorsTerminal ==
  /\ [](error # "" =>
          /\ solution_eval = NoValue
          /\ slope = NoValue /\ y_intercept = NoValue
          /\ val["sol2"] = NoValue)
  /\ [][error = ""]_vars

\* the decomposition has failed in the middle of a run, after other
\* kernels had produced their values
C7_Witness ==
  /\ error = CholeskyError
  /\ val["tA_A"] # NoValue /\ val["tA_y"] # NoValue

(***************************************************************************)
(* C8.  A second sess.run(sol2) returns what the first returned, and no    *)
(* step changes the inputs: the columns, the targets, A_tensor and y once  *)
(* they are built.                                                         *)
(***************************************************************************)
C8_SameResultTwice ==
  /\ [](Returned => \A i \in 1..Len(history) : history[i] = solution_eval)
  /\ [][/\ columns' = columns
        /\ y_vals' = y_vals
        /\ A_tensor # NoValue => (A_tensor' = A_tensor /\ y' = y)]_vars

C8_Witness == pc = "done" /\ Len(history) >= 1 /\ Rows(A_tensor) > NumCols

(***************************************************************************)
(* C9.  No solve divides by a diagonal entry of its matrix that is smaller *)
(* in magnitude than the epsilon: a solve that has produced a result had   *)
(* every diagonal entry at least Eps in magnitude.  (The epsilon the       *)
(* specification suggests, 1e-12, is scaled to Eps; the kernel tests for   *)
(* exactly zero whatever the epsilon.)                                     *)
(***************************************************************************)
Eps == <<1, 1000>>

C9_PivotsGuarded ==
  \A i \in 1..Len(trace) :
    (trace[i].op = "MatrixSolve" /\ trace[i].out # NoValue) =>
      \A d \in 1..Rows(trace[i].a) : RLe(Eps, RAbs(trace[i].a[d][d]))

UpperTriangular(T) ==
  \A i, j \in 1..Rows(T) : i > j => T[i][j] = Zero

NonZeroDiagonal(T) == \A i \in 1..Rows(T) : T[i][i] # Zero

StepsOf(node) == SolveSteps(Entry(node).a, Entry(node).b)

IsSubstitute(s) == s.kind = "substitute"

\* the rows of the solution in the order the solve of a node computed them
RowOrder(node) ==
  LET subs == SelectSeq(StepsOf(node), IsSubstitute)
  IN  [i \in 1..Len(subs) |-> subs[i].row]

FirstToLast(n) == [i \in 1..n |-> i]
LastToFirst(n) == [i \in 1..n |-> n + 1 - i]

\* the solve of a node exchanged two rows, or added a multiple of one row
\* to another
RowExchanged(node) ==
  \E i \in 1..Len(StepsOf(node)) :
    StepsOf(node)[i].kind = "pivot" /\ StepsOf(node)[i].using # StepsOf(node)[i].row

RowsCombined(node) ==
  LET a == Entry(node).a
      b == Entry(node).b
  IN  Eliminated(a, b) # Augment(a, b)

\* every substitution of the solve of a node reads, of the solution, only
\* rows that were computed before it
ReadsOnlyComputed(node) ==
  LET steps == StepsOf(node)
  IN  \A i \in 1..Len(steps) :
        IsSubstitute(steps[i]) =>
          steps[i].reads \subseteq
            {steps[j].row : j \in {k \in 1..(i - 1) : IsSubstitute(steps[k])}}

ForwardSolved ==
  /\ InTrace("sol1")
  /\ LowerTriangular(Entry("sol1").a) /\ NonZeroDiagonal(Entry("sol1").a)

BackSolved ==
  /\ InTrace("sol2")
  /\ UpperTriangular(Entry("sol2").a) /\ NonZeroDiagonal(Entry("sol2").a)

Decomposed == InTrace("L") /\ Entry("L").out # NoValue

\* C13: once the decomposition has succeeded every diagonal entry of L is
\* strictly positive and neither solve fails: the run never ends with the
\* error of tf.matrix_solve, and on input of matching dimensions the only
\* error is the one of tf.cholesky, raised before either solve has run.
C13_OnlyCholeskyFails ==
  /\ Decomposed =>
       /\ \A i \in 1..Rows(Entry("L").out) : RLt(Zero, Entry("L").out[i][i])
       /\ error = ""
       /\ \A i \in 1..Len(trace) :
            trace[i].op = "MatrixSolve" => trace[i].out # NoValue
  /\ error # NotInvertibleError
  /\ (WellShaped /\ error # "") =>
       /\ error = CholeskyError
       /\ trace[Len(trace)].node = "L" /\ trace[Len(trace)].out = NoValue
       /\ ~InTrace("sol1") /\ ~InTrace("sol2")

\* both solves have gone through on a factor with a diagonal entry below
\* the epsilon of the specification
C13_Witness ==
  /\ Decomposed /\ InTrace("sol1") /\ InTrace("sol2")
  /\ val["sol2"] # NoValue
  /\ \E i \in 1..Rows(Entry("L").out) : RLt(Entry("L").out[i][i], Eps)
====
